---- MODULE Spec2Model ----
(***************************************************************************)
(* Portfolio Health Report Generator (src/app.py, src/pdf_creator.py).     *)
(*                                                                         *)
(* Numbers: spreadsheet cells hold integers; every quotient the program    *)
(* forms is kept as an exact fraction [n, d] (d > 0), and the non-finite   *)
(* results of a float division by zero are d = 0 with n = 0 (NaN), n = 1   *)
(* (+inf), n = -1 (-inf).  Binary rounding of float64 and the sign of a    *)
(* float zero are not represented.                                         *)
(* Text is a sequence of one-character strings.                            *)
(***************************************************************************)
EXTENDS Integers, Sequences, FiniteSets, TLC

\* ------------------------------------------------------------------ numbers

Abs(x) == IF x < 0 THEN -x ELSE x

RECURSIVE GCD(_, _)
GCD(a, b) == IF b = 0 THEN a ELSE GCD(b, a % b)

Sign(x) == IF x > 0 THEN 1 ELSE IF x < 0 THEN -1 ELSE 0

\* the fraction n/d in lowest terms, d > 0
Frac(n, d) ==
    LET g == GCD(Abs(n), Abs(d))
        s == IF d < 0 THEN -1 ELSE 1
    IN  [n |-> (s * n) \div g, d |-> (s * d) \div g]

Int2Num(i) == [n |-> i, d |-> 1]
NaN == [n |-> 0, d |-> 0]
PosInf == [n |-> 1, d |-> 0]
NegInf == [n |-> -1, d |-> 0]

IsNaN(x) == x.d = 0 /\ x.n = 0
IsFinite(x) == x.d > 0

\* float addition: NaN absorbs, inf + -inf is NaN
NumAdd(x, y) ==
    IF IsNaN(x) \/ IsNaN(y) THEN NaN
    ELSE IF x.d = 0 /\ y.d = 0 THEN (IF x.n = y.n THEN x ELSE NaN)
    ELSE IF x.d = 0 THEN x
    ELSE IF y.d = 0 THEN y
    ELSE Frac(x.n * y.d + y.n * x.d, x.d * y.d)

NumNeg(x) == [n |-> -x.n, d |-> x.d]

NumSub(x, y) == NumAdd(x, NumNeg(y))

\* float multiplication: NaN absorbs, inf * 0 is NaN
NumMul(x, y) ==
    IF IsNaN(x) \/ IsNaN(y) THEN NaN
    ELSE IF x.d = 0 \/ y.d = 0
         THEN (IF x.n = 0 \/ y.n = 0 THEN NaN
               ELSE [n |-> Sign(x.n) * Sign(y.n), d |-> 0])
    ELSE Frac(x.n * y.n, x.d * y.d)

\* float division: x/0 is +-inf, 0/0 is NaN, nothing is raised
NumDiv(x, y) ==
    IF IsNaN(x) \/ IsNaN(y) THEN NaN
    ELSE IF y.d = 0 THEN (IF x.d = 0 THEN NaN ELSE Int2Num(0))
    ELSE IF x.d = 0 THEN (IF y.n < 0 THEN NumNeg(x) ELSE x)
    ELSE IF y.n = 0 THEN (IF x.n = 0 THEN NaN
                          ELSE IF x.n > 0 THEN PosInf ELSE NegInf)
    ELSE Frac(x.n * y.d, x.d * y.n)

\* x > y as floats compare: False when either is NaN
NumGt(x, y) ==
    IF IsNaN(x) \/ IsNaN(y) THEN FALSE
    ELSE IF x.d = 0 THEN (x.n = 1 /\ y # PosInf)
    ELSE IF y.d = 0 THEN y.n = -1
    ELSE x.n * y.d > y.n * x.d

Hundred == Int2Num(100)
Zero == Int2Num(0)
One == Int2Num(1)

\* ------------------------------------------------------------------ cells

NumCell(i) == [k |-> "num", v |-> i, s |-> <<>>]
StrCell(t) == [k |-> "str", v |-> 0, s |-> t]
NaNCell == [k |-> "nan", v |-> 0, s |-> <<>>]

Digits == <<"0", "1", "2", "3", "4", "5", "6", "7", "8", "9">>

IsDigit(c) == \E i \in 1..Len(Digits) : Digits[i] = c

DigitVal(c) == (CHOOSE i \in 1..Len(Digits) : Digits[i] = c) - 1

RECURSIVE DigitsVal(_)
DigitsVal(t) ==
    IF t = <<>> THEN 0
    ELSE 10 * DigitsVal(SubSeq(t, 1, Len(t) - 1)) + DigitVal(t[Len(t)])

\* pd.to_numeric(errors='coerce') on one cell: a number stays, text that spells
\* a decimal integer is parsed, anything else becomes NaN
to_numeric(c) ==
    IF c.k = "num" THEN NumCell(c.v)
    ELSE IF c.k = "str" /\ c.s # <<>> /\ \A i \in 1..Len(c.s) : IsDigit(c.s[i])
         THEN NumCell(DigitsVal(c.s))
    ELSE IF c.k = "str" /\ Len(c.s) > 1 /\ c.s[1] = "-"
            /\ \A i \in 2..Len(c.s) : IsDigit(c.s[i])
         THEN NumCell(-DigitsVal(Tail(c.s)))
    ELSE NaNCell

\* Series.fillna(value) on one cell
fillna(c, value) == IF c.k = "nan" THEN value ELSE c

\* the float a cleaned numeric cell holds
CellNum(c) == IF c.k = "num" THEN Int2Num(c.v) ELSE NaN

Uncategorized == <<"U", "n", "c", "a", "t", "e", "g", "o", "r", "i", "z", "e", "d">>
NotSpecified == <<"N", "o", "t", " ", "S", "p", "e", "c", "i", "f", "i", "e", "d">>

\* ------------------------------------------------------------------ tables

\* A DataFrame is [cols |-> set of column names, rows |-> sequence of rows],
\* a row being a function from cols to the cell (or, in a computed column,
\* the number) the row holds there.

None == [cols |-> {"<None>"}, rows |-> <<>>]

required_cols == <<"Stock Name", "Quantity", "Buy Price", "Current Price">>

\* df[col] = value (one value for every row): adds or overwrites a column
SetColumn(df, col, value) ==
    [cols |-> df.cols \cup {col},
     rows |-> [i \in 1..Len(df.rows) |->
                 [c \in df.cols \cup {col} |->
                     IF c = col THEN value ELSE df.rows[i][c]]]]

\* df[col] = values, one value per row
MapColumn(df, col, values) ==
    [cols |-> df.cols \cup {col},
     rows |-> [i \in 1..Len(df.rows) |->
                 [c \in df.cols \cup {col} |->
                     IF c = col THEN values[i] ELSE df.rows[i][c]]]]

\* Series.sum(): NaN entries are skipped, the empty sum is 0
RECURSIVE SumSeq(_)
SumSeq(xs) ==
    IF xs = <<>> THEN Zero
    ELSE IF IsNaN(xs[1]) THEN SumSeq(Tail(xs))
    ELSE NumAdd(xs[1], SumSeq(Tail(xs)))

Column(df, col) == [i \in 1..Len(df.rows) |-> df.rows[i][col]]

ColumnSum(df, col) == SumSeq(Column(df, col))

\* Series.replace(0, 1) on one entry
replace_0_1(x) == IF x = Zero THEN One ELSE x

\* lines 99-103 with the two defaults exchanged
AddOptionalColumnsSwapped(df) ==
    LET d1 == IF "Sector" \notin df.cols
              THEN SetColumn(df, "Sector", StrCell(NotSpecified)) ELSE df
    IN  IF "Market Cap" \notin d1.cols
        THEN SetColumn(d1, "Market Cap", StrCell(Uncategorized)) ELSE d1

\* lines 99-103: the optional columns are added to the frame the caller passed
AddOptionalColumns(df) ==
    LET d1 == IF "Sector" \notin df.cols
              THEN SetColumn(df, "Sector", StrCell(Uncategorized)) ELSE df
    IN  IF "Market Cap" \notin d1.cols
        THEN SetColumn(d1, "Market Cap", StrCell(NotSpecified)) ELSE d1

\* lines 106-117 for one cell of a numeric column
CleanNumber(c) == CellNum(fillna(to_numeric(fillna(c, NumCell(0))), NumCell(0)))

\* lines 105-117: fillna with the defaults, then numeric coercion; returns a new frame
CleanData(df) ==
    LET n == Len(df.rows)
        d1 == MapColumn(df, "Sector",
                [i \in 1..n |-> fillna(df.rows[i]["Sector"], StrCell(Uncategorized))])
        d2 == MapColumn(d1, "Market Cap",
                [i \in 1..n |-> fillna(df.rows[i]["Market Cap"], StrCell(NotSpecified))])
        d3 == MapColumn(d2, "Quantity", [i \in 1..n |-> CleanNumber(df.rows[i]["Quantity"])])
        d4 == MapColumn(d3, "Buy Price", [i \in 1..n |-> CleanNumber(df.rows[i]["Buy Price"])])
    IN  MapColumn(d4, "Current Price", [i \in 1..n |-> CleanNumber(df.rows[i]["Current Price"])])

\* line 120
Investment(quantity, buy_price) == NumMul(quantity, buy_price)

\* line 121
CurrentValue(quantity, current_price) == NumMul(quantity, current_price)

\* line 122 with the operands exchanged
GainLossSwapped(current_value, investment) == NumSub(investment, current_value)

\* line 122
GainLoss(current_value, investment) == NumSub(current_value, investment)

\* line 123 without .replace(0, 1)
GainLossPctUnguarded(gain_loss, investment) ==
    NumMul(NumDiv(gain_loss, investment), Hundred)

\* line 123
GainLossPct(gain_loss, investment) ==
    NumMul(NumDiv(gain_loss, replace_0_1(investment)), Hundred)

\* line 124 without * 100
WeightFraction(current_value, total) == NumDiv(current_value, total)

\* line 124
WeightPct(current_value, total) == NumMul(NumDiv(current_value, total), Hundred)

\* lines 119-124
CalculateMetrics(df) ==
    LET n == Len(df.rows)
        d1 == MapColumn(df, "Investment",
                [i \in 1..n |-> Investment(df.rows[i]["Quantity"], df.rows[i]["Buy Price"])])
        d2 == MapColumn(d1, "Current Value",
                [i \in 1..n |-> CurrentValue(d1.rows[i]["Quantity"], d1.rows[i]["Current Price"])])
        d3 == MapColumn(d2, "Gain/Loss",
                [i \in 1..n |-> GainLoss(d2.rows[i]["Current Value"], d2.rows[i]["Investment"])])
        d4 == MapColumn(d3, "Gain/Loss %",
                [i \in 1..n |-> GainLossPct(d3.rows[i]["Gain/Loss"], d3.rows[i]["Investment"])])
        WithWeights(d, total) ==
            MapColumn(d, "Weight %", [i \in 1..n |-> WeightPct(d.rows[i]["Current Value"], total)])
    IN  WithWeights(d4, ColumnSum(d4, "Current Value"))

NoError == [kind |-> "none", msg |-> "", arg |-> ""]
ValueError(m, a) == [kind |-> "ValueError", msg |-> m, arg |-> a]
TypeError(m, a) == [kind |-> "TypeError", msg |-> m, arg |-> a]

MissingColumns(df) == {i \in 1..Len(required_cols) : required_cols[i] \notin df.cols}

\* lines 95-97 reporting the last absent column instead of the first
LastMissing(df) ==
    required_cols[CHOOSE j \in MissingColumns(df) : \A m \in MissingColumns(df) : j >= m]

\* lines 95-97: the loop raises at the first required column that is absent
FirstMissing(df) ==
    required_cols[CHOOSE j \in MissingColumns(df) : \A m \in MissingColumns(df) : j <= m]

\* process_portfolio_data(df): what it raises, what it returns, and the frame
\* object the caller passed as the call leaves it
process_portfolio_data(df) ==
    IF MissingColumns(df) # {}
    THEN [raised |-> ValueError("Missing required column: ", FirstMissing(df)),
          result |-> None,
          arg |-> df]
    ELSE [raised |-> NoError,
          result |-> CalculateMetrics(CleanData(AddOptionalColumns(df))),
          arg |-> AddOptionalColumns(df)]

\* ------------------------------------------------------------------ summary

\* the characters of the model's texts in code-point order
Alphabet == <<" ", "-", "0", "1", "2", "3", "4", "5", "6", "7", "8", "9",
              "A", "B", "C", "I", "L", "N", "S", "T", "U",
              "a", "c", "d", "e", "f", "g", "i", "k", "n", "o", "p", "r", "t", "x", "z">>

Ord(c) == CHOOSE i \in 1..Len(Alphabet) : Alphabet[i] = c

\* a < b for Python strings
RECURSIVE StrLess(_, _)
StrLess(a, b) ==
    IF b = <<>> THEN FALSE
    ELSE IF a = <<>> THEN TRUE
    ELSE IF a[1] = b[1] THEN StrLess(Tail(a), Tail(b))
    ELSE Ord(a[1]) < Ord(b[1])

\* the sequence of the members of a set of texts, ascending
RECURSIVE SortedLabels(_)
SortedLabels(S) ==
    IF S = {} THEN <<>>
    ELSE LET m == CHOOSE x \in S : \A y \in S : y = x \/ StrLess(x, y)
         IN  <<m>> \o SortedLabels(S \ {m})

\* df.groupby(by)['Current Value'].sum().to_dict(): one entry per label, labels
\* ascending, each with the sum of Current Value over the rows carrying it
GroupSum(df, by) ==
    LET labels == SortedLabels({df.rows[i][by].s : i \in 1..Len(df.rows)})
        members(l) == SelectSeq(df.rows, LAMBDA r : r[by].s = l)
    IN  [k \in 1..Len(labels) |->
            [label |-> labels[k],
             value |-> SumSeq([j \in 1..Len(members(labels[k])) |->
                                  members(labels[k])[j]["Current Value"]])]]

\* where row i lands when the rows are ordered by xs descending, ties in row order
PosLargest(xs, i) ==
    1 + Cardinality({j \in 1..Len(xs) : NumGt(xs[j], xs[i]) \/ (xs[j] = xs[i] /\ j < i)})

PosSmallest(xs, i) ==
    1 + Cardinality({j \in 1..Len(xs) : NumGt(xs[i], xs[j]) \/ (xs[j] = xs[i] /\ j < i)})

Min(a, b) == IF a < b THEN a ELSE b

\* df.nlargest(n, col): the indices of the n rows with the largest col, largest
\* first, equal values in row order (keep='first')
nlargest(df, n, col) ==
    LET xs == Column(df, col)
    IN  [k \in 1..Min(n, Len(xs)) |-> CHOOSE i \in 1..Len(xs) : PosLargest(xs, i) = k]

\* df.nsmallest written as a second nlargest
nsmallest_as_nlargest(df, n, col) == nlargest(df, n, col)

\* df.nsmallest(n, col)
nsmallest(df, n, col) ==
    LET xs == Column(df, col)
    IN  [k \in 1..Min(n, Len(xs)) |-> CHOOSE i \in 1..Len(xs) : PosSmallest(xs, i) = k]

TopHoldingsCount == 10
ReportRankCount == 3
UiRankCount == 5
ConcentrationCount == 5

\* idxmax() / max() of lines 171-172 taking the first bucket
FirstEntry(dist) == dist[1]

\* Series.idxmax() / max() of a group sum: the first entry holding the maximum
MaxEntry(dist) ==
    dist[CHOOSE k \in 1..Len(dist) :
            /\ \A j \in 1..Len(dist) : ~NumGt(dist[j].value, dist[k].value)
            /\ \A j \in 1..(k - 1) : dist[j].value # dist[k].value]

NoPdfData == [num_holdings |-> -1]

\* line 170 summing the 3 largest only
top_3_concentration(df) ==
    LET top3 == nlargest(df, ReportRankCount, "Current Value")
    IN  SumSeq([k \in 1..Len(top3) |-> df.rows[top3[k]]["Weight %"]])

\* line 170
top_5_concentration(df) ==
    LET top5 == nlargest(df, ConcentrationCount, "Current Value")
    IN  SumSeq([k \in 1..Len(top5) |-> df.rows[top5[k]]["Weight %"]])

\* prepare_pdf_data(df, ...): what it raises and the pdf_data it returns
prepare_pdf_data(df, total_investment, total_value, total_gain_loss, overall_return) ==
    LET sector_dist == GroupSum(df, "Sector")
        cap_dist == GroupSum(df, "Market Cap")
        top_df == nlargest(df, TopHoldingsCount, "Current Value")
        gainers_df == nlargest(df, ReportRankCount, "Gain/Loss %")
        losers_df == nsmallest(df, ReportRankCount, "Gain/Loss %")
        ranked(ix) == [k \in 1..Len(ix) |->
                          [idx |-> ix[k],
                           name |-> df.rows[ix[k]]["Stock Name"],
                           return_pct |-> df.rows[ix[k]]["Gain/Loss %"],
                           gain_loss |-> df.rows[ix[k]]["Gain/Loss"]]]
    IN  IF sector_dist = <<>>
        THEN [raised |-> ValueError("attempt to get argmax of an empty sequence", ""),
              result |-> NoPdfData]
        ELSE [raised |-> NoError,
              result |->
                [total_investment |-> total_investment,
                 total_value |-> total_value,
                 total_gain_loss |-> total_gain_loss,
                 overall_return |-> overall_return,
                 num_holdings |-> Len(df.rows),
                 sectors |-> [k \in 1..Len(sector_dist) |-> sector_dist[k].label],
                 sector_distribution |-> sector_dist,
                 market_cap_distribution |-> cap_dist,
                 top_holdings |-> [k \in 1..Len(top_df) |->
                                     [idx |-> top_df[k],
                                      name |-> df.rows[top_df[k]]["Stock Name"],
                                      sector |-> df.rows[top_df[k]]["Sector"],
                                      value |-> df.rows[top_df[k]]["Current Value"],
                                      return_pct |-> df.rows[top_df[k]]["Gain/Loss %"]]],
                 top_gainers |-> ranked(gainers_df),
                 top_losers |-> ranked(losers_df),
                 concentration_risk |-> top_5_concentration(df),
                 top_sector |-> MaxEntry(sector_dist).label,
                 top_sector_pct |-> NumMul(NumDiv(MaxEntry(sector_dist).value, total_value), Hundred),
                 sector_chart |-> sector_dist # <<>>,
                 market_cap_chart |-> cap_dist # <<>>]]

\* ------------------------------------------------------------------ document

\* text[:n]
Truncate(text, n) == SubSeq(text, 1, Min(n, Len(text)))

RECURSIVE PySum(_)
\* Python's sum(values) over floats: nothing is skipped
PySum(xs) == IF xs = <<>> THEN Zero ELSE NumAdd(xs[1], PySum(Tail(xs)))

LegendLabelChars == 15
HoldingNameChars == 20
HoldingSectorChars == 15
PerfNameChars == 15
TopSectorChars == 15

NoChart == [title |-> "", legend |-> <<>>]

\* create_pie_chart_for_pdf with the filter of line 22 written v >= 0
create_pie_chart_for_pdf_keeping_zero(data_dict, title) ==
    LET kept == SelectSeq(data_dict, LAMBDA e : NumGt(e.value, Zero) \/ e.value = Zero)
        total == PySum([k \in 1..Len(kept) |-> kept[k].value])
    IN  IF data_dict = <<>> THEN NoChart
        ELSE IF kept = <<>> THEN NoChart
        ELSE [title |-> title,
              legend |-> [k \in 1..Len(kept) |->
                            [label |-> Truncate(kept[k].label, LegendLabelChars),
                             pct |-> NumMul(NumDiv(kept[k].value, total), Hundred)]]]

\* create_pie_chart_for_pdf(data_dict, title): NoChart for None, else the chart
\* image written to a new temporary file
create_pie_chart_for_pdf(data_dict, title) ==
    LET kept == SelectSeq(data_dict, LAMBDA e : NumGt(e.value, Zero))
        total == PySum([k \in 1..Len(kept) |-> kept[k].value])
    IN  IF data_dict = <<>> THEN NoChart
        ELSE IF kept = <<>> THEN NoChart
        ELSE [title |-> title,
              legend |-> [k \in 1..Len(kept) |->
                            [label |-> Truncate(kept[k].label, LegendLabelChars),
                             pct |-> NumMul(NumDiv(kept[k].value, total), Hundred)]]]

ConcentrationHigh == 50
ConcentrationModerate == 40
SectorHigh == 40
SectorModerate == 30

\* line 240 with >= for >
ConcentrationAssessmentInclusive(concentration_risk) ==
    IF ~NumGt(Int2Num(ConcentrationHigh), concentration_risk) /\ ~IsNaN(concentration_risk)
    THEN "High"
    ELSE IF ~NumGt(Int2Num(ConcentrationModerate), concentration_risk) /\ ~IsNaN(concentration_risk)
    THEN "Moderate"
    ELSE "Low"

\* line 240
ConcentrationAssessment(concentration_risk) ==
    IF NumGt(concentration_risk, Int2Num(ConcentrationHigh)) THEN "High"
    ELSE IF NumGt(concentration_risk, Int2Num(ConcentrationModerate)) THEN "Moderate"
    ELSE "Low"

\* line 242
SectorAssessment(top_sector_pct) ==
    IF NumGt(top_sector_pct, Int2Num(SectorHigh)) THEN "High"
    ELSE IF NumGt(top_sector_pct, Int2Num(SectorModerate)) THEN "Moderate"
    ELSE "Low"

NoDocument == [built |-> FALSE]

\* the temporary chart files a report generation writes, in order
ChartFiles(portfolio_data) ==
    LET sc == IF portfolio_data.sector_chart
              THEN create_pie_chart_for_pdf(portfolio_data.sector_distribution, "Sector Distribution")
              ELSE NoChart
        cc == IF portfolio_data.market_cap_chart
              THEN create_pie_chart_for_pdf(portfolio_data.market_cap_distribution, "Market Cap Distribution")
              ELSE NoChart
    IN  (IF sc = NoChart THEN <<>> ELSE <<sc>>) \o (IF cc = NoChart THEN <<>> ELSE <<cc>>)

\* a cell subscripted as text[:n] raises TypeError unless it holds text
Subscriptable(c) == c.k = "str"

\* create_portfolio_pdf_report(portfolio_data): what it raises, the document it
\* returns, and the temporary files it wrote on the way
create_portfolio_pdf_report(portfolio_data) ==
    LET files == ChartFiles(portfolio_data)
        th == portfolio_data.top_holdings
        tg == portfolio_data.top_gainers
        tl == portfolio_data.top_losers
        holdings_ok == \A k \in 1..Min(TopHoldingsCount, Len(th)) :
                          Subscriptable(th[k].name) /\ Subscriptable(th[k].sector)
        perf_ok == /\ \A k \in 1..Min(ReportRankCount, Len(tg)) : Subscriptable(tg[k].name)
                   /\ \A k \in 1..Min(ReportRankCount, Len(tl)) : Subscriptable(tl[k].name)
        perf(list, role) == [k \in 1..Min(ReportRankCount, Len(list)) |->
                               [role |-> role,
                                name |-> Truncate(list[k].name.s, PerfNameChars),
                                return_pct |-> list[k].return_pct,
                                gain_loss |-> list[k].gain_loss]]
    IN  IF ~(holdings_ok /\ perf_ok)
        THEN [raised |-> TypeError("object is not subscriptable", ""),
              result |-> NoDocument,
              files |-> files]
        ELSE [raised |-> NoError,
              files |-> files,
              result |->
                [built |-> TRUE,
                 summary |-> [total_investment |-> portfolio_data.total_investment,
                              total_value |-> portfolio_data.total_value,
                              total_gain_loss |-> portfolio_data.total_gain_loss,
                              overall_return |-> portfolio_data.overall_return,
                              num_holdings |-> portfolio_data.num_holdings,
                              num_sectors |-> Len(portfolio_data.sectors)],
                 charts |-> files,
                 holdings |-> [k \in 1..Min(TopHoldingsCount, Len(th)) |->
                                 [name |-> Truncate(th[k].name.s, HoldingNameChars),
                                  sector |-> Truncate(th[k].sector.s, HoldingSectorChars),
                                  value |-> th[k].value,
                                  return_pct |-> th[k].return_pct]],
                 perf |-> perf(tg, "Top Gainer") \o perf(tl, "Top Loser"),
                 risk |-> [concentration |-> portfolio_data.concentration_risk,
                           concentration_assessment |->
                               ConcentrationAssessment(portfolio_data.concentration_risk),
                           top_sector |-> Truncate(portfolio_data.top_sector, TopSectorChars),
                           top_sector_pct |-> portfolio_data.top_sector_pct,
                           sector_assessment |->
                               SectorAssessment(portfolio_data.top_sector_pct)]]]

\* ------------------------------------------------------------------ the page

\* create_pie_chart(data_dict, title, palette): NoChart for None, else the figure
create_pie_chart(data_dict, title) ==
    LET kept == SelectSeq(data_dict, LAMBDA e : NumGt(e.value, Zero))
        total == PySum([k \in 1..Len(kept) |-> kept[k].value])
    IN  IF data_dict = <<>> THEN NoChart
        ELSE IF kept = <<>> THEN NoChart
        ELSE [title |-> title,
              legend |-> [k \in 1..Len(kept) |->
                            [label |-> kept[k].label,
                             pct |-> NumMul(NumDiv(kept[k].value, total), Hundred)]]]

\* main, lines 299-303 without the guard of line 302
PortfolioMetricsUnguarded(df) ==
    LET total_investment == ColumnSum(df, "Investment")
        total_gain_loss == ColumnSum(df, "Gain/Loss")
    IN  [total_investment |-> total_investment,
         total_value |-> ColumnSum(df, "Current Value"),
         total_gain_loss |-> total_gain_loss,
         overall_return |-> NumMul(NumDiv(total_gain_loss, total_investment), Hundred)]

\* main, lines 299-303
PortfolioMetrics(df) ==
    LET total_investment == ColumnSum(df, "Investment")
        total_gain_loss == ColumnSum(df, "Gain/Loss")
    IN  [total_investment |-> total_investment,
         total_value |-> ColumnSum(df, "Current Value"),
         total_gain_loss |-> total_gain_loss,
         overall_return |-> IF NumGt(total_investment, Zero)
                            THEN NumMul(NumDiv(total_gain_loss, total_investment), Hundred)
                            ELSE Zero]

NoMetrics == [shown |-> FALSE]

\* what a run of main() puts on the page
Page(kind) ==
    [kind |-> kind,            \* "prompt", "error" or "report"
     metrics |-> NoMetrics,    \* the four summary cards
     charts |-> <<>>,          \* the pie charts drawn
     top_gainers |-> <<>>,     \* row indices, in the order listed
     top_losers |-> <<>>,
     table_rows |-> 0,         \* rows in the data table
     button |-> FALSE,         \* "Generate PDF Report" is on the page
     pdf_message |-> "",       \* st.success / st.error of the generation
     download |-> FALSE]       \* the download button is on the page

\* main, lines 305-379, for a frame that was processed
ReportPage(df, charts_on) ==
    LET sf == create_pie_chart(GroupSum(df, "Sector"), "Sector Distribution")
        cf == create_pie_chart(GroupSum(df, "Market Cap"), "Market Cap Distribution")
    IN  [Page("report") EXCEPT
            !.metrics = PortfolioMetrics(df),
            !.charts = IF charts_on
                       THEN (IF sf = NoChart THEN <<>> ELSE <<sf>>)
                            \o (IF cf = NoChart THEN <<>> ELSE <<cf>>)
                       ELSE <<>>,
            !.top_gainers = nlargest(df, UiRankCount, "Gain/Loss %"),
            !.top_losers = nsmallest(df, UiRankCount, "Gain/Loss %"),
            !.table_rows = Len(df.rows),
            !.button = TRUE]

NoGeneration == [raised |-> NoError, pdf_data |-> NoPdfData, report |-> NoDocument, files |-> <<>>]

\* main, lines 392-398
PreparePdfData(df) ==
    LET m == PortfolioMetrics(df)
    IN  prepare_pdf_data(df, m.total_investment, m.total_value,
                         m.total_gain_loss, m.overall_return)

\* main, lines 402-412, given what prepare_pdf_data did
GenerateFrom(p) ==
    IF p.raised # NoError
    THEN [NoGeneration EXCEPT !.raised = p.raised]
    ELSE LET Outcome(r) == [raised |-> r.raised, pdf_data |-> p.result,
                            report |-> r.result, files |-> r.files]
         IN  Outcome(create_portfolio_pdf_report(p.result))

\* main, lines 388-412: the outcome of pressing the button on a processed frame
Generate(df) == GenerateFrom(PreparePdfData(df))

\* ------------------------------------------------------------------ inputs

AllColumns == {"Stock Name", "Quantity", "Buy Price", "Current Price", "Sector", "Market Cap"}
RequiredColumns == {"Stock Name", "Quantity", "Buy Price", "Current Price"}

Row(name, quantity, buy_price, current_price, sector, market_cap) ==
    [c \in AllColumns |->
        CASE c = "Stock Name" -> name
          [] c = "Quantity" -> quantity
          [] c = "Buy Price" -> buy_price
          [] c = "Current Price" -> current_price
          [] c = "Sector" -> sector
          [] c = "Market Cap" -> market_cap]

Restrict(r, cols) == [c \in cols |-> r[c]]

SeqsUpTo(S, n) == UNION {[1..k -> S] : k \in 0..n}

\* the spreadsheets with a header among headers and at most n rows among rows
TablesOf(headers, rows, n) ==
    {[cols |-> h, rows |-> [i \in 1..Len(rs) |-> Restrict(rs[i], h)]] :
        h \in headers, rs \in SeqsUpTo(rows, n)}

IT == <<"I", "T">>
Bank == <<"B", "a", "n", "k">>
Large == <<"L", "a", "r", "g", "e">>

\* the uploads of the session: with and without the optional columns, with
\* required columns missing, with a Stock Name cell left empty
MaxSessionRows == 1
SessionHeaders ==
    {AllColumns, RequiredColumns, AllColumns \ {"Quantity"},
     AllColumns \ {"Stock Name", "Buy Price"}}
SessionRows ==
    {Row(name, NumCell(10), buy_price, NumCell(5), StrCell(IT), NaNCell) :
        name \in {StrCell(<<"A">>), NaNCell}, buy_price \in {NumCell(0), NumCell(4)}}
SessionTables == TablesOf(SessionHeaders, SessionRows, MaxSessionRows)
MaxTmpFiles == 4

\* ------------------------------------------------------------------ state

VARIABLES
    uploaded_file,    \* the spreadsheet in the uploader, None when there is none
    generate_charts,  \* the "Generate Charts" checkbox
    pdf_ready,        \* st.session_state.pdf_ready
    pdf_buffer,       \* st.session_state.pdf_buffer, NoDocument for None
    tmp_files,        \* temporary chart files on disk
    pc,               \* "idle", "rerun" (st.rerun() pending), or a pipeline stage
    raw_df,           \* the frame read from the file, as the last run left it
    df,               \* the processed frame of the last run
    error,            \* the exception the last run caught
    page,             \* what the last run put on the page
    pdf_data,         \* prepare_pdf_data's result in the last run
    report            \* create_portfolio_pdf_report's result in the last run

vars == <<uploaded_file, generate_charts, pdf_ready, pdf_buffer, tmp_files, pc,
          raw_df, df, error, page, pdf_data, report>>

session == <<pdf_ready, pdf_buffer>>

\* lines 11-15 and the first run of main(), no file chosen yet
Init ==
    /\ uploaded_file = None
    /\ generate_charts = TRUE
    /\ pdf_ready = FALSE
    /\ pdf_buffer = NoDocument
    /\ tmp_files = 0
    /\ pc = "idle"
    /\ raw_df = None
    /\ df = None
    /\ error = NoError
    /\ page = Page("prompt")
    /\ pdf_data = NoPdfData
    /\ report = NoDocument

\* line 415 without its condition
DownloadOfferedAlways(ready, buffer) == TRUE

\* line 415
DownloadOffered(ready, buffer) == ready /\ buffer # NoDocument

\* lines 402-412 storing the result whether or not the generation raised
SessionAfterAlways(g, ready, buffer) == [pdf_ready |-> TRUE, pdf_buffer |-> g.report]

\* lines 402-412: session_state after a generation that ended as g did
SessionAfter(g, ready, buffer) ==
    IF g.raised = NoError
    THEN [pdf_ready |-> TRUE, pdf_buffer |-> g.report]
    ELSE [pdf_ready |-> ready, pdf_buffer |-> buffer]

\* one run of main() (lines 256-485) with the widgets as given; clicked is the
\* value st.button returns in this run
Script(file, charts_on, clicked) ==
    \E p \in {process_portfolio_data(file)} :
    \E g \in {IF clicked /\ file # None /\ p.raised = NoError
              THEN Generate(p.result) ELSE NoGeneration} :
    \E shown \in {IF file # None /\ p.raised = NoError
                  THEN ReportPage(p.result, charts_on) ELSE Page("error")} :
        IF file = None
        THEN /\ raw_df' = None /\ df' = None /\ error' = NoError
             /\ page' = Page("prompt")
             /\ pdf_data' = NoPdfData /\ report' = NoDocument
             /\ pc' = "idle"
             /\ UNCHANGED <<pdf_ready, pdf_buffer, tmp_files>>
        ELSE IF p.raised # NoError
        THEN /\ raw_df' = p.arg /\ df' = None /\ error' = p.raised
             /\ page' = shown
             /\ pdf_data' = NoPdfData /\ report' = NoDocument
             /\ pc' = "idle"
             /\ UNCHANGED <<pdf_ready, pdf_buffer, tmp_files>>
        ELSE IF ~clicked
        THEN /\ raw_df' = p.arg /\ df' = p.result /\ error' = NoError
             /\ page' = [shown EXCEPT !.download = DownloadOffered(pdf_ready, pdf_buffer)]
             /\ pdf_data' = NoPdfData /\ report' = NoDocument
             /\ pc' = "idle"
             /\ UNCHANGED <<pdf_ready, pdf_buffer, tmp_files>>
        ELSE IF g.raised = NoError
        THEN /\ raw_df' = p.arg /\ df' = p.result /\ error' = NoError
             /\ pdf_data' = g.pdf_data /\ report' = g.report
             /\ tmp_files' = tmp_files + Len(g.files)
             /\ pdf_buffer' = SessionAfter(g, pdf_ready, pdf_buffer).pdf_buffer
             /\ pdf_ready' = SessionAfter(g, pdf_ready, pdf_buffer).pdf_ready
             /\ page' = [shown EXCEPT !.pdf_message = "PDF report generated successfully!"]
             /\ pc' = "rerun"
        ELSE /\ raw_df' = p.arg /\ df' = p.result /\ error' = g.raised
             /\ pdf_data' = g.pdf_data /\ report' = NoDocument
             /\ tmp_files' = tmp_files + Len(g.files)
             /\ page' = [shown EXCEPT !.pdf_message = "Error generating PDF",
                                      !.download = DownloadOffered(pdf_ready, pdf_buffer)]
             /\ pc' = "idle"
             /\ pdf_buffer' = SessionAfter(g, pdf_ready, pdf_buffer).pdf_buffer
             /\ pdf_ready' = SessionAfter(g, pdf_ready, pdf_buffer).pdf_ready

\* the user picks a spreadsheet in the uploader
UploadFile ==
    /\ pc = "idle"
    /\ \E t \in SessionTables :
        /\ uploaded_file' = t
        /\ Script(t, generate_charts, FALSE)
    /\ UNCHANGED generate_charts

\* the user clears the uploader
RemoveFile ==
    /\ pc = "idle"
    /\ uploaded_file # None
    /\ uploaded_file' = None
    /\ Script(None, generate_charts, FALSE)
    /\ UNCHANGED generate_charts

\* the user flips the "Generate Charts" checkbox
ToggleCharts ==
    /\ pc = "idle"
    /\ generate_charts' = ~generate_charts
    /\ Script(uploaded_file, ~generate_charts, FALSE)
    /\ UNCHANGED uploaded_file

\* the user presses "Generate PDF Report", which the last run put on the page
ClickGenerate ==
    /\ pc = "idle"
    /\ page.button
    /\ tmp_files + 2 <= MaxTmpFiles
    /\ Script(uploaded_file, generate_charts, TRUE)
    /\ UNCHANGED <<uploaded_file, generate_charts>>

\* the run st.rerun() asked for (line 409)
Rerun ==
    /\ pc = "rerun"
    /\ Script(uploaded_file, generate_charts, FALSE)
    /\ UNCHANGED <<uploaded_file, generate_charts>>

Next == UploadFile \/ RemoveFile \/ ToggleCharts \/ ClickGenerate \/ Rerun

Spec == Init /\ [][Next]_vars

\* ------------------------------------------------------------------ pipeline
\* The same functions applied one after the other to one spreadsheet:
\* process_portfolio_data, the page of main(), prepare_pdf_data,
\* create_portfolio_pdf_report.

\* spreadsheets with coerced cells: text in Quantity, an empty Buy Price, a
\* Current Price typed as text, negative quantities and prices
MaxMetricsRows == 2
MetricsHeaders ==
    {AllColumns, RequiredColumns, AllColumns \ {"Sector"}, AllColumns \ {"Market Cap"}}
MetricsRows ==
    {Row(StrCell(<<"A">>), quantity, buy_price, current_price, StrCell(IT), NaNCell) :
        quantity \in {NumCell(10), NumCell(-1), StrCell(<<"x">>)},
        buy_price \in {NumCell(0), NumCell(4), NaNCell},
        current_price \in {NumCell(5), StrCell(<<"-", "2">>)}}
MetricsTables == TablesOf(MetricsHeaders, MetricsRows, MaxMetricsRows)

\* spreadsheets for the rankings: up to MaxRankRows different rows of 100 units,
\* six of them with pairwise different returns and one more that ties
MaxRankRows == 6
RankPrices == {<<1, 1>>, <<1, 3>>, <<1, 6>>, <<4, 1>>, <<4, 3>>, <<4, 6>>, <<2, 6>>}
RankRows ==
    {Row(StrCell(<<"A">>), NumCell(100), NumCell(bc[1]), NumCell(bc[2]),
         IF bc[1] = 1 THEN StrCell(IT) ELSE IF bc[1] = 4 THEN StrCell(Bank) ELSE NaNCell,
         StrCell(Large)) : bc \in RankPrices}
Injective(rs) == \A i, j \in 1..Len(rs) : rs[i] = rs[j] => i = j
RankTables ==
    {[cols |-> AllColumns, rows |-> rs] :
        rs \in {x \in SeqsUpTo(RankRows, MaxRankRows) : Injective(x)}}

InitPipeline(tables) ==
    /\ uploaded_file \in tables
    /\ generate_charts = TRUE
    /\ pdf_ready = FALSE
    /\ pdf_buffer = NoDocument
    /\ tmp_files = 0
    /\ pc = "raw"
    /\ raw_df = None
    /\ df = None
    /\ error = NoError
    /\ page = Page("prompt")
    /\ pdf_data = NoPdfData
    /\ report = NoDocument

\* main, lines 296-297
ProcessStep ==
    /\ pc = "raw"
    /\ \E p \in {process_portfolio_data(uploaded_file)} :
        /\ raw_df' = p.arg
        /\ df' = p.result
        /\ error' = p.raised
        /\ pc' = IF p.raised = NoError THEN "processed" ELSE "failed"
    /\ UNCHANGED <<uploaded_file, generate_charts, pdf_ready, pdf_buffer, tmp_files,
                   page, pdf_data, report>>

\* main, lines 299-379
DisplayStep ==
    /\ pc = "processed"
    /\ page' = ReportPage(df, generate_charts)
    /\ pc' = "displayed"
    /\ UNCHANGED <<uploaded_file, generate_charts, pdf_ready, pdf_buffer, tmp_files,
                   raw_df, df, error, pdf_data, report>>

\* main, lines 392-398
PrepareStep ==
    /\ pc = "displayed"
    /\ \E p \in {PreparePdfData(df)} :
        /\ pdf_data' = p.result
        /\ error' = p.raised
        /\ pc' = IF p.raised = NoError THEN "prepared" ELSE "failed"
    /\ UNCHANGED <<uploaded_file, generate_charts, pdf_ready, pdf_buffer, tmp_files,
                   raw_df, df, page, report>>

\* main, line 402
RenderStep ==
    /\ pc = "prepared"
    /\ \E r \in {create_portfolio_pdf_report(pdf_data)} :
        /\ report' = r.result
        /\ error' = r.raised
        /\ tmp_files' = tmp_files + Len(r.files)
        /\ pc' = IF r.raised = NoError THEN "rendered" ELSE "failed"
    /\ UNCHANGED <<uploaded_file, generate_charts, pdf_ready, pdf_buffer,
                   raw_df, df, page, pdf_data>>

NextPipeline == ProcessStep \/ DisplayStep \/ PrepareStep \/ RenderStep

InitMetrics == InitPipeline(MetricsTables)
SpecMetrics == InitMetrics /\ [][NextPipeline]_vars

InitRank == InitPipeline(RankTables)
SpecRank == InitRank /\ [][NextPipeline]_vars

\* create_portfolio_pdf_report on its own: the risk figures of a prepared
\* summary range over RiskValues, the rest of the summary is that of RiskTable
RiskTable ==
    [cols |-> AllColumns,
     rows |-> <<Row(StrCell(<<"A">>), NumCell(10), NumCell(4), NumCell(5), StrCell(IT), StrCell(Large)),
                Row(StrCell(<<"B">>), NumCell(10), NumCell(0), NumCell(5), StrCell(Bank), StrCell(Large))>>]
RiskValues ==
    {NaN, PosInf, Frac(61, 2), Frac(81, 2), Frac(101, 2)}
        \cup {Int2Num(v) : v \in {-50, 0, 20, 30, 31, 40, 41, 45, 50, 51, 55, 100}}

InitRisk ==
    /\ uploaded_file = RiskTable
    /\ generate_charts = TRUE
    /\ pdf_ready = FALSE
    /\ pdf_buffer = NoDocument
    /\ tmp_files = 0
    /\ pc = "prepared"
    /\ raw_df = process_portfolio_data(RiskTable).arg
    /\ df = process_portfolio_data(RiskTable).result
    /\ error = NoError
    /\ page = ReportPage(df, generate_charts)
    /\ \E c \in RiskValues, t \in RiskValues :
          pdf_data = [PreparePdfData(df).result EXCEPT
                         !.concentration_risk = c, !.top_sector_pct = t]
    /\ report = NoDocument

NextRisk == RenderStep

SpecRisk == InitRisk /\ [][NextRisk]_vars

\* spreadsheets for the distributions: up to MaxDistRows rows in three sectors
\* (one left empty) and two market caps (one left empty), holding 10, 30, 0 or
\* -1 units priced 5, so that a bucket can sum to a positive value, to 0 or to
\* a negative one
MaxDistRows == 3
DistQuantities == {10, 30, 0, -1}
DistRows ==
    {Row(StrCell(<<"A">>), NumCell(quantity), NumCell(4), NumCell(5), sector,
         IF quantity = 30 THEN NaNCell ELSE StrCell(Large)) :
        quantity \in DistQuantities, sector \in {StrCell(IT), StrCell(Bank), NaNCell}}
DistTables == TablesOf({AllColumns}, DistRows, MaxDistRows)

InitDist == InitPipeline(DistTables)
SpecDist == InitDist /\ [][NextPipeline]_vars

\* ------------------------------------------------------------------ claims

Rows(d) == 1..Len(d.rows)

\* C1: in every table process_portfolio_data returns, every row has
\* Investment + Gain/Loss = Current Value
C1_InvestmentPlusGainLoss ==
    df # None =>
        \A i \in Rows(df) :
            NumAdd(df.rows[i]["Investment"], df.rows[i]["Gain/Loss"])
                = df.rows[i]["Current Value"]

\* a processed table with text in a Quantity cell, an empty Buy Price cell and a
\* row of negative quantity
C1_Witness ==
    /\ df # None
    /\ \E i \in Rows(df) : uploaded_file.rows[i]["Quantity"].k = "str"
    /\ \E i \in Rows(df) : uploaded_file.rows[i]["Buy Price"].k = "nan"
    /\ \E i \in Rows(df) : df.rows[i]["Quantity"].n < 0 /\ df.rows[i]["Gain/Loss"] # Zero

\* C2: when the total Current Value is greater than 0 the Weight % column sums
\* to 100, each weight being the row's Current Value over that total, times 100
C2_WeightsSumTo100 ==
    (df # None /\ NumGt(ColumnSum(df, "Current Value"), Zero)) =>
        /\ PySum(Column(df, "Weight %")) = Hundred
        /\ \A i \in Rows(df) :
              NumMul(df.rows[i]["Weight %"], ColumnSum(df, "Current Value"))
                  = NumMul(df.rows[i]["Current Value"], Hundred)

\* two rows, a positive total, one row of negative value (a weight below 0 and
\* one above 100)
C2_Witness ==
    /\ df # None
    /\ Len(df.rows) = 2
    /\ NumGt(ColumnSum(df, "Current Value"), Zero)
    /\ \E i \in Rows(df) : NumGt(Zero, df.rows[i]["Weight %"])
    /\ \E i \in Rows(df) : NumGt(df.rows[i]["Weight %"], Hundred)

\* C4: Gain/Loss % is Gain/Loss / Investment * 100 where Investment is not 0 and
\* Gain/Loss * 100 where it is 0; 10 units bought at 0 and priced 5 give
\* Investment 0, Gain/Loss 50, Gain/Loss % 5000; the result is always a finite
\* number and processing raises nothing
C4_GainLossPct ==
    /\ (pc # "raw" /\ MissingColumns(uploaded_file) = {}) => df # None
    /\ df # None =>
        \A i \in Rows(df) :
            LET r == df.rows[i]
            IN  /\ IsFinite(r["Gain/Loss %"])
                /\ r["Investment"] # Zero =>
                      NumMul(r["Gain/Loss %"], r["Investment"]) = NumMul(r["Gain/Loss"], Hundred)
                /\ r["Investment"] = Zero =>
                      r["Gain/Loss %"] = NumMul(r["Gain/Loss"], Hundred)
                /\ (r["Quantity"] = Int2Num(10) /\ r["Buy Price"] = Zero
                        /\ r["Current Price"] = Int2Num(5)) =>
                      /\ r["Investment"] = Zero
                      /\ r["Gain/Loss"] = Int2Num(50)
                      /\ r["Gain/Loss %"] = Int2Num(5000)

\* the row of the example, processed
C4_Witness ==
    /\ df # None
    /\ \E i \in Rows(df) :
          /\ uploaded_file.rows[i]["Quantity"] = NumCell(10)
          /\ uploaded_file.rows[i]["Buy Price"] = NumCell(0)
          /\ uploaded_file.rows[i]["Current Price"] = NumCell(5)
          /\ df.rows[i]["Gain/Loss %"] = Int2Num(5000)

\* C5: for a non-empty table with neither a Sector nor a Market Cap column,
\* every processed row has Sector "Uncategorized" and Market Cap "Not
\* Specified", and the sector distribution of prepare_pdf_data has the one key
\* "Uncategorized", whose value is the total Current Value
C5_DefaultsWhenColumnsAbsent ==
    (uploaded_file.cols \cap {"Sector", "Market Cap"} = {} /\ uploaded_file.rows # <<>>) =>
        /\ df # None =>
              \A i \in Rows(df) :
                  /\ df.rows[i]["Sector"] = StrCell(Uncategorized)
                  /\ df.rows[i]["Market Cap"] = StrCell(NotSpecified)
        /\ pc \in {"prepared", "rendered"} =>
              /\ Len(pdf_data.sector_distribution) = 1
              /\ pdf_data.sector_distribution[1].label = Uncategorized
              /\ pdf_data.sector_distribution[1].value = ColumnSum(df, "Current Value")
        /\ pc = "failed" => pdf_data # NoPdfData

\* two rows without the optional columns, summarised
C5_Witness ==
    /\ uploaded_file.cols = RequiredColumns
    /\ Len(uploaded_file.rows) = 2
    /\ pc = "prepared"
    /\ pdf_data.sector_distribution[1].value # Zero

\* C9: process_portfolio_data leaves the table it was passed as it was: the
\* same columns, the same cells
C9_InputUnchanged ==
    pc # "raw" => (raw_df.cols = uploaded_file.cols /\ raw_df.rows = uploaded_file.rows)

\* C3: a table lacking a required column makes the run end with the error that
\* names the first absent one; nothing is derived, no summary, chart or button
\* is put on the page, no generation takes place and the session is untouched
C3_MissingColumnStopsTheRun ==
    [][(uploaded_file' # None /\ MissingColumns(uploaded_file') # {}) =>
          /\ error'.kind = "ValueError"
          /\ error'.msg = "Missing required column: "
          /\ \E j \in 1..Len(required_cols) :
                /\ error'.arg = required_cols[j]
                /\ required_cols[j] \notin uploaded_file'.cols
                /\ \A m \in 1..(j - 1) : required_cols[m] \in uploaded_file'.cols
          /\ df' = None
          /\ raw_df' = uploaded_file'
          /\ page' = Page("error")
          /\ pdf_data' = NoPdfData
          /\ report' = NoDocument
          /\ pc' = "idle"
          /\ UNCHANGED <<pdf_ready, pdf_buffer, tmp_files>>]_vars

\* an upload lacking Stock Name and Buy Price, after a document was generated
\* from an earlier upload
C3_Witness ==
    /\ uploaded_file # None
    /\ Cardinality(MissingColumns(uploaded_file)) = 2
    /\ error.arg = "Stock Name"
    /\ page.kind = "error"
    /\ pdf_ready

RECURSIVE SumOver(_, _)
SumOver(S, xs) ==
    IF S = {} THEN Zero
    ELSE LET i == CHOOSE x \in S : TRUE
         IN  NumAdd(xs[i], SumOver(S \ {i}, xs))

\* C6: concentration_risk is the sum of Weight % over the 5 rows of largest
\* Current Value (all rows when there are fewer), so it is 100 for at most 5
\* holdings of positive total value; [600, 300, 100] gives 100
C6_ConcentrationRisk ==
    (df # None /\ pdf_data # NoPdfData) =>
        LET cv == Column(df, "Current Value")
            n == Len(df.rows)
        IN  /\ \A S \in SUBSET Rows(df) :
                  (/\ Cardinality(S) = Min(5, n)
                   /\ \A i \in S, j \in Rows(df) \ S : ~NumGt(cv[j], cv[i]))
                  => pdf_data.concentration_risk = SumOver(S, Column(df, "Weight %"))
            /\ (n <= 5 /\ NumGt(ColumnSum(df, "Current Value"), Zero))
                  => pdf_data.concentration_risk = Hundred
            /\ cv = <<Int2Num(600), Int2Num(300), Int2Num(100)>>
                  => pdf_data.concentration_risk = Hundred

\* the three holdings of the example, summarised
C6_Witness ==
    /\ df # None
    /\ pdf_data # NoPdfData
    /\ Column(df, "Current Value") = <<Int2Num(600), Int2Num(300), Int2Num(100)>>
    /\ pdf_data.concentration_risk = Hundred

\* x > v for a float x and an integer v
Above(x, v) == x = PosInf \/ (x.d > 0 /\ x.n > v * x.d)

\* C7: in the risk table concentration_risk is High iff above 50, Moderate iff
\* above 40 and at most 50, Low otherwise; top_sector_pct is High iff above 40,
\* Moderate iff above 30 and at most 40, Low otherwise; 55 is High, 45 and 50
\* Moderate, 20 and 40 Low
C7_RiskAssessment ==
    report # NoDocument =>
        LET c == pdf_data.concentration_risk
            t == pdf_data.top_sector_pct
            ca == report.risk.concentration_assessment
            sa == report.risk.sector_assessment
        IN  /\ ca \in {"High", "Moderate", "Low"}
            /\ ca = "High" <=> Above(c, 50)
            /\ ca = "Moderate" <=> (Above(c, 40) /\ ~Above(c, 50))
            /\ sa \in {"High", "Moderate", "Low"}
            /\ sa = "High" <=> Above(t, 40)
            /\ sa = "Moderate" <=> (Above(t, 30) /\ ~Above(t, 40))
            /\ c = Int2Num(55) => ca = "High"
            /\ c = Int2Num(45) => ca = "Moderate"
            /\ c = Int2Num(20) => ca = "Low"
            /\ c = Int2Num(50) => ca = "Moderate"
            /\ c = Int2Num(40) => ca = "Low"

\* a document whose concentration is exactly 50 and whose largest sector is
\* exactly 40
C7_Witness ==
    /\ report # NoDocument
    /\ pdf_data.concentration_risk = Int2Num(50)
    /\ report.risk.concentration_assessment = "Moderate"
    /\ pdf_data.top_sector_pct = Int2Num(40)
    /\ report.risk.sector_assessment = "Moderate"

Range(f) == {f[k] : k \in DOMAIN f}

DistinctReturns(d) ==
    \A i, j \in Rows(d) : d.rows[i]["Gain/Loss %"] = d.rows[j]["Gain/Loss %"] => i = j

ReportGainers == {pdf_data.top_gainers[k].idx : k \in DOMAIN pdf_data.top_gainers}
ReportLosers == {pdf_data.top_losers[k].idx : k \in DOMAIN pdf_data.top_losers}

\* C8 as claimed: with fewer than 6 holdings of pairwise different Gain/Loss %,
\* no holding is in both the top-gainers and the top-losers list, in the report
\* (3 and 3) and on the page (5 and 5)
C8_DisjointBelowSix ==
    (df # None /\ Len(df.rows) < 6 /\ DistinctReturns(df)) =>
        /\ page.kind = "report" => Range(page.top_gainers) \cap Range(page.top_losers) = {}
        /\ pdf_data # NoPdfData => ReportGainers \cap ReportLosers = {}

\* the holdings two lists of k share among n holdings of different returns
Overlap(k, n) == IF 2 * Min(k, n) > n THEN 2 * Min(k, n) - n ELSE 0

\* C8 amended: with n holdings of pairwise different Gain/Loss %, the report's
\* lists share max(0, 2*min(3,n) - n) holdings and the page's lists
\* max(0, 2*min(5,n) - n): they are disjoint from 6 holdings on in the report
\* and from 10 on on the page, and never for 1 to 5 holdings
C8_OverlapOfRankings ==
    (df # None /\ DistinctReturns(df)) =>
        /\ page.kind = "report" =>
              Cardinality(Range(page.top_gainers) \cap Range(page.top_losers))
                  = Overlap(5, Len(df.rows))
        /\ pdf_data # NoPdfData =>
              Cardinality(ReportGainers \cap ReportLosers) = Overlap(3, Len(df.rows))

\* six holdings of different returns: the report's lists are disjoint, the
\* page's share four
C8_Witness ==
    /\ df # None
    /\ Len(df.rows) = 6
    /\ DistinctReturns(df)
    /\ pdf_data # NoPdfData
    /\ ReportGainers \cap ReportLosers = {}
    /\ Cardinality(Range(page.top_gainers) \cap Range(page.top_losers)) = 4

\* C10: pdf_buffer and pdf_ready change only in a run where the button was
\* pressed and the generation succeeded, and then hold the new document; a
\* generation that raises shows the error, leaves both as they were and asks
\* for no rerun; no run generates without the button pressed
C10_ArtifactOnlyBySuccess ==
    [][/\ <<pdf_ready, pdf_buffer>>' # <<pdf_ready, pdf_buffer>> =>
            /\ ClickGenerate
            /\ page'.pdf_message = "PDF report generated successfully!"
       /\ page'.pdf_message = "PDF report generated successfully!" =>
            /\ report' # NoDocument
            /\ pdf_buffer' = report'
            /\ pdf_ready' = TRUE
       /\ page'.pdf_message = "Error generating PDF" =>
            /\ error' # NoError
            /\ UNCHANGED <<pdf_ready, pdf_buffer>>
            /\ pc' = "idle"
       /\ (page'.pdf_message # "" \/ report' # NoDocument \/ pdf_data' # NoPdfData) =>
            ClickGenerate]_vars

\* a generation that failed while an earlier document is retained
C10_Witness ==
    /\ page.pdf_message = "Error generating PDF"
    /\ pdf_ready
    /\ pdf_buffer # NoDocument

\* the entries of a distribution whose value is greater than 0
Positive(dist) == {k \in 1..Len(dist) : Above(dist[k].value, 0)}

\* the j-th member of a set of positions, ascending
Nth(S, j) == CHOOSE k \in S : Cardinality({m \in S : m < k}) = j - 1

\* the chart of that title among those drawn, NoChart when there is none
ChartTitled(charts, title) ==
    IF \E k \in 1..Len(charts) : charts[k].title = title
    THEN charts[CHOOSE k \in 1..Len(charts) : charts[k].title = title]
    ELSE NoChart

\* chart is what the claim says of the distribution dist: none when no entry is
\* positive, else one legend line per positive entry, in the order of dist,
\* with the entry's share of the positive entries' sum, the shares adding to 100
ChartAsClaimed(chart, dist, label_chars) ==
    LET P == Positive(dist)
        values == [k \in 1..Len(dist) |-> dist[k].value]
    IN  IF P = {} THEN chart = NoChart
        ELSE /\ chart # NoChart
             /\ Len(chart.legend) = Cardinality(P)
             /\ \A j \in 1..Len(chart.legend) :
                   /\ chart.legend[j].label
                         = SubSeq(dist[Nth(P, j)].label, 1, Min(label_chars, Len(dist[Nth(P, j)].label)))
                   /\ NumMul(chart.legend[j].pct, SumOver(P, values))
                         = NumMul(dist[Nth(P, j)].value, Hundred)
             /\ PySum([j \in 1..Len(chart.legend) |-> chart.legend[j].pct]) = Hundred

\* C11: the page's charts and the document's charts are each absent when the
\* distribution has no entry greater than 0, and otherwise list exactly the
\* entries greater than 0, in the distribution's order, each with its value
\* over the sum of the listed values times 100; the listed percentages add up
\* to 100
C11_ChartsOfPositiveCategories ==
    /\ page.kind = "report" =>
          /\ Len(page.charts) <= 2
          /\ ChartAsClaimed(ChartTitled(page.charts, "Sector Distribution"),
                            GroupSum(df, "Sector"), 100)
          /\ ChartAsClaimed(ChartTitled(page.charts, "Market Cap Distribution"),
                            GroupSum(df, "Market Cap"), 100)
    /\ report # NoDocument =>
          /\ Len(report.charts) <= 2
          /\ ChartAsClaimed(ChartTitled(report.charts, "Sector Distribution"),
                            pdf_data.sector_distribution, LegendLabelChars)
          /\ ChartAsClaimed(ChartTitled(report.charts, "Market Cap Distribution"),
                            pdf_data.market_cap_distribution, LegendLabelChars)

\* a document of three sectors, one positive, one summing to 0 and one
\* negative: on the page and in the document the sector chart lists one sector
C11_Witness ==
    /\ report # NoDocument
    /\ Len(pdf_data.sector_distribution) = 3
    /\ \E k \in 1..3 : pdf_data.sector_distribution[k].value = Zero
    /\ \E k \in 1..3 : NumGt(Zero, pdf_data.sector_distribution[k].value)
    /\ Len(ChartTitled(report.charts, "Sector Distribution").legend) = 1
    /\ Len(ChartTitled(page.charts, "Sector Distribution").legend) = 1

\* C12: once create_portfolio_pdf_report has returned or raised, none of the
\* temporary chart files it wrote is left: after any number of generations
\* there is no temporary chart file on disk
C12_NoLeftoverChartFiles == tmp_files = 0

\* the overall return the claim gives for a processed table
OverallReturnAsClaimed(d, x) ==
    LET ti == PySum(Column(d, "Investment"))
        tg == PySum(Column(d, "Gain/Loss"))
    IN  /\ Above(ti, 0) => NumMul(x, ti) = NumMul(tg, Hundred)
        /\ ~Above(ti, 0) => x = Zero

\* C13: the overall return on the page, in the summary handed to the document
\* and in the document is total Gain/Loss over total Investment times 100 when
\* the total Investment is greater than 0, and 0 when it is 0 or negative
\* whatever the total Gain/Loss; it is the ratio of the column totals
C13_OverallReturn ==
    /\ page.kind = "report" => OverallReturnAsClaimed(df, page.metrics.overall_return)
    /\ pdf_data # NoPdfData =>
          /\ OverallReturnAsClaimed(df, pdf_data.overall_return)
          /\ pdf_data.overall_return = page.metrics.overall_return
    /\ report # NoDocument => report.summary.overall_return = pdf_data.overall_return

\* a document for two holdings whose total Investment is negative and whose
\* total Gain/Loss is not 0: the overall return is 0 although the rows'
\* Gain/Loss % are not
C13_Witness ==
    /\ report # NoDocument
    /\ Len(df.rows) = 2
    /\ NumGt(Zero, PySum(Column(df, "Investment")))
    /\ PySum(Column(df, "Gain/Loss")) # Zero
    /\ report.summary.overall_return = Zero
    /\ PySum(Column(df, "Gain/Loss %")) # Zero

\* the Sector labels of the processed rows
SectorLabels(d) == {d.rows[i]["Sector"] : i \in Rows(d)}

\* the entry of a distribution carrying a label
BucketOf(dist, label) == dist[CHOOSE k \in 1..Len(dist) : dist[k].label = label]

\* C14: in every summary the sector buckets and the market cap buckets each
\* add up to total_value, every row's label being a text with a bucket of its
\* own kind; the document's Number of Sectors is the number of different
\* Sector labels; and when no Current Value is negative and total_value is
\* greater than 0, top_sector names a bucket no other bucket exceeds and
\* top_sector_pct is at most 100
C14_DistributionsPartitionTheTotal ==
    pdf_data # NoPdfData =>
        LET sd == pdf_data.sector_distribution
            cd == pdf_data.market_cap_distribution
            tv == PySum(Column(df, "Current Value"))
        IN  /\ pdf_data.total_value = tv
            /\ PySum([k \in 1..Len(sd) |-> sd[k].value]) = tv
            /\ PySum([k \in 1..Len(cd) |-> cd[k].value]) = tv
            /\ \A i \in Rows(df) :
                  /\ df.rows[i]["Sector"].k = "str"
                  /\ df.rows[i]["Market Cap"].k = "str"
                  /\ Cardinality({k \in 1..Len(sd) : sd[k].label = df.rows[i]["Sector"].s}) = 1
                  /\ Cardinality({k \in 1..Len(cd) : cd[k].label = df.rows[i]["Market Cap"].s}) = 1
            /\ Len(sd) = Cardinality(SectorLabels(df))
            /\ Len(pdf_data.sectors) = Cardinality(SectorLabels(df))
            /\ report # NoDocument => report.summary.num_sectors = Cardinality(SectorLabels(df))
            /\ ((\A i \in Rows(df) : ~Above(NumNeg(df.rows[i]["Current Value"]), 0)) /\ Above(tv, 0)) =>
                  /\ \E k \in 1..Len(sd) : sd[k].label = pdf_data.top_sector
                  /\ \A k \in 1..Len(sd) :
                        ~NumGt(sd[k].value, BucketOf(sd, pdf_data.top_sector).value)
                  /\ ~Above(pdf_data.top_sector_pct, 100)
                  /\ NumMul(pdf_data.top_sector_pct, tv)
                        = NumMul(BucketOf(sd, pdf_data.top_sector).value, Hundred)

\* a document for three holdings in three sectors, one of them left empty in
\* the spreadsheet, and two market caps, one left empty: the largest sector is
\* not the first bucket and holds less than the whole
C14_Witness ==
    /\ report # NoDocument
    /\ report.summary.num_sectors = 3
    /\ Len(pdf_data.market_cap_distribution) = 2
    /\ \E i \in Rows(df) : uploaded_file.rows[i]["Sector"].k = "nan"
    /\ \E i \in Rows(df) : uploaded_file.rows[i]["Market Cap"].k = "nan"
    /\ \A i \in Rows(df) : Above(df.rows[i]["Current Value"], 0)
    /\ pdf_data.top_sector # pdf_data.sector_distribution[1].label
    /\ ~Above(pdf_data.top_sector_pct, 99)

\* the document a generation from the table of this run gives
DocumentOfCurrentTable == Generate(df).report

\* what both readings of C15 share: the download button is on the page only in
\* a run that processed its file without error and only with a document
\* retained, and pdf_ready is never set without one
DownloadOnlyWithArtifact ==
    /\ pdf_ready => pdf_buffer # NoDocument
    /\ page.download =>
          /\ uploaded_file # None
          /\ df # None
          /\ page.kind = "report"
          /\ pdf_ready
          /\ pdf_buffer # NoDocument

\* C15 as claimed: the download button is offered only in a run that processed
\* its file without error and only with pdf_ready set and a document retained,
\* and then the retained document is the one generated from the table
\* uploaded in that run
C15_DownloadOfCurrentTable ==
    /\ DownloadOnlyWithArtifact
    /\ page.download => pdf_buffer = DocumentOfCurrentTable

\* C15 amended: the download button is offered only in a run that processed
\* its file without error and only with pdf_ready set and a document retained;
\* the retained document is the one of the latest generation that succeeded in
\* the session: only such a generation replaces it, by the document of the
\* table it ran on, and an upload, a removal, a toggle, a rerun or a failed
\* generation leaves it as it was
C15_DownloadOfLatestGeneration ==
    /\ []DownloadOnlyWithArtifact
    /\ [](report # NoDocument => report = DocumentOfCurrentTable)
    /\ [][/\ (ClickGenerate /\ error' = NoError) =>
                /\ pdf_ready'
                /\ report' # NoDocument
                /\ pdf_buffer' = report'
          /\ ~(ClickGenerate /\ error' = NoError) => UNCHANGED <<pdf_ready, pdf_buffer>>
          /\ (page'.download /\ ~page.download) => (pdf_ready /\ pdf_buffer' = pdf_buffer)]_vars

\* the download button offered for a table other than the one the retained
\* document was generated from
C15_Witness ==
    /\ page.download
    /\ df # None
    /\ DocumentOfCurrentTable # NoDocument
    /\ pdf_buffer # DocumentOfCurrentTable

====
